---- MODULE Spec2Model ----
(***************************************************************************)
(* Paper intake and relevance-gated analysis pipeline of RW_orange.        *)
(*                                                                         *)
(* The state is the React state of App (papers, pendingFile,               *)
(* editingPaper), the state of the mounted RelevanceChecker, the           *)
(* asynchronous analysis pipelines started by handleAcceptPaper, and the   *)
(* blocking window.confirm dialog of processFile.  Every await of the      *)
(* source is a point where other handlers may run, so every await ends an  *)
(* action; code between two awaits runs in one action.                     *)
(***************************************************************************)
EXTENDS Integers, Sequences, FiniteSets, TLC

(* Number of crypto.randomUUID() calls explored. *)
MaxAccepts == 2

(***************************************************************************)
(* JavaScript optional values: undefined is <<>>, a present value v is     *)
(* <<v>>.                                                                  *)
(***************************************************************************)
Undefined == <<>>
Some(v) == <<v>>
IsSet(o) == o # <<>>

(***************************************************************************)
(* Strings that the code normalises are sequences of characters.           *)
(***************************************************************************)
toLowerCaseChar(c) ==
  IF c = "X" THEN "x" ELSE IF c = "Y" THEN "y" ELSE c

toLowerCase(s) == [i \in 1..Len(s) |-> toLowerCaseChar(s[i])]

RECURSIVE trimStart(_)
trimStart(s) ==
  IF s # <<>> /\ Head(s) = " " THEN trimStart(Tail(s)) ELSE s

RECURSIVE trimEnd(_)
trimEnd(s) ==
  IF s # <<>> /\ s[Len(s)] = " " THEN trimEnd(SubSeq(s, 1, Len(s) - 1)) ELSE s

(* Mutant of trim: leading blanks are kept. *)
trimEndOnly(s) == trimEnd(s)

trim(s) == trimEnd(trimStart(s))

(* A JavaScript string is truthy when it is not empty. *)
truthy(s) == s # <<>>

(* Mutant of sameDoi: the DOIs are compared as they are. *)
sameDoiExact(d1, d2) == d1 = d2

(* d1.toLowerCase().trim() === d2.toLowerCase().trim() *)
sameDoi(d1, d2) == trim(toLowerCase(d1)) = trim(toLowerCase(d2))

(***************************************************************************)
(* Input domains.                                                          *)
(***************************************************************************)
FileNames == {"a.pdf", "b.pdf"}
FileTypes == {"application/pdf", "text/plain"}
Files == [name : FileNames, type : FileTypes]

(* DOIs a model or a user may supply; <<>> is the empty string. *)
Dois == { <<>>, <<"x">>, <<" ", "X">>, <<"y">> }

(* A PaperAnalysis, reduced to the field the collection logic reads. *)
PaperAnalysis == [doi : Dois]

(* What JSON.parse may return for the extractor: an object, or a falsy     *)
(* scalar (0, false), which is <<>> here as nothing reads it apart from    *)
(* its truthiness.                                                         *)
ParsedAnalyses == {Undefined} \cup {Some(a) : a \in PaperAnalysis}

(* AI settings read from localStorage by callAI. *)
Providers == {"claude", "gemini"}
Configs == [provider : Providers, orangeApiKey : BOOLEAN, geminiApiKey : BOOLEAN]

(* Text returned by a provider: empty, not JSON, or JSON of a value; a      *)
(* text may come wrapped in a ```json code fence.                          *)
EmptyText == [kind |-> "empty", value |-> Undefined, fenced |-> FALSE]
NotJson == [kind |-> "notjson", value |-> Undefined, fenced |-> FALSE]
JsonText(v, fenced) == [kind |-> "json", value |-> v, fenced |-> fenced]

(* Outcome of a call that may throw. *)
Throws(msg) == [throws |-> TRUE, msg |-> msg, value |-> Undefined]
Returns(v) == [throws |-> FALSE, msg |-> "", value |-> v]

ProviderFailure == Throws("provider error")

(* What the provider may answer to a prompt whose JSON value is in values. *)
ProviderReplies(values) ==
  {ProviderFailure} \cup {Returns(EmptyText), Returns(NotJson)}
    \cup {Returns(JsonText(v, f)) : v \in values, f \in BOOLEAN}

(***************************************************************************)
(* aiService: the gateway, the extractor's parsing, the enrichment.        *)
(***************************************************************************)
(* Mutant of callAI: the proxy is called without checking its key. *)
callAINoKeyCheck(config, reply) == reply

(* The request callAI sends, undefined when it throws before sending one:  *)
(* gemini is used only when it is selected and has a key, and is given the *)
(* responseMimeType; every other configuration goes to the proxy, which    *)
(* needs the orange key and is always asked for a json_object.             *)
callAIRequest(config, responseMimeType) ==
  IF config.provider = "gemini" /\ config.geminiApiKey
    THEN Some([provider |-> "gemini",
               json |-> responseMimeType = "application/json"])
    ELSE IF ~config.orangeApiKey
      THEN Undefined
      ELSE Some([provider |-> "claude", json |-> TRUE])

(* callAI, given what the provider does with the request. *)
callAIWith(config, responseMimeType, reply) ==
  IF IsSet(callAIRequest(config, responseMimeType))
    THEN reply
    ELSE Throws("Orange API key not configured")

(* callAI with the default responseMimeType. *)
callAI(config, reply) == callAIWith(config, "application/json", reply)

(* text.replace(/```json\s*|\s*```/g, '').trim() *)
stripFences(text) == [text EXCEPT !.fenced = FALSE]

(* JSON.parse *)
jsonParse(text) ==
  IF text.kind = "json" /\ ~text.fenced
    THEN Returns(text.value)
    ELSE Throws("SyntaxError")

(* The part of analyzePaper and checkPaperRelevance that follows the       *)
(* gateway call: empty text throws, the fence is stripped, JSON is parsed. *)
parseReply(r, emptyMsg) ==
  IF r.throws THEN r
  ELSE IF r.value.kind = "empty" THEN Throws(emptyMsg)
  ELSE jsonParse(stripFences(r.value))

(* Registry works: a work may come without a DOI. *)
RegistryDois == { <<>>, <<"x">> }
CrossRefData == {Undefined} \cup {Some([DOI |-> d]) : d \in RegistryDois}

(* `https://doi.org/${DOI}` *)
doiUrl(doi) == <<"https://doi.org/">> \o doi

(* Number.prototype.toString of the years the registry may hold. *)
yearToString(n) == CASE n = 2020 -> "2020" [] n = 1999 -> "1999"

(* Mutant of enrichedField: the registry's value is taken as it is. *)
enrichedFieldOverwrite(a, w, f) ==
  CASE f = "doi" -> w.DOI
    [] f = "url" -> IF truthy(w.DOI) THEN doiUrl(w.DOI) ELSE a.url
    [] f = "journal" -> IF w.containerTitle # <<>> THEN w.containerTitle[1] ELSE ""
    [] f = "volume" -> w.volume
    [] f = "issue" -> w.issue
    [] f = "year" -> IF IsSet(w.published) THEN yearToString(w.published[1])
                     ELSE a.year
    [] OTHER -> a[f]

(* One field of the object enrichWithCrossRef returns on a hit: the        *)
(* registry's value || the model's value.                                  *)
enrichedField(a, w, f) ==
  CASE f = "doi" -> IF truthy(w.DOI) THEN w.DOI ELSE a.doi
    [] f = "url" -> IF truthy(w.DOI) THEN doiUrl(w.DOI) ELSE a.url
    [] f = "journal" -> IF w.containerTitle # <<>> /\ w.containerTitle[1] # ""
                          THEN w.containerTitle[1] ELSE a.journal
    [] f = "volume" -> IF w.volume # "" THEN w.volume ELSE a.volume
    [] f = "issue" -> IF w.issue # "" THEN w.issue ELSE a.issue
    [] f = "year" -> IF IsSet(w.published) THEN yearToString(w.published[1])
                     ELSE a.year
    [] OTHER -> a[f]

(* enrichWithCrossRef, given what the two lookups found (Undefined when    *)
(* nothing was found or a fetch threw, which the function catches); the    *)
(* fields are those the analysis has.                                      *)
enrichWithCrossRef(analysis, crossRefData) ==
  IF IsSet(analysis) /\ IsSet(crossRefData)
    THEN Some([f \in DOMAIN analysis[1] |->
                 enrichedField(analysis[1], crossRefData[1], f)])
    ELSE analysis

(* A fetch of the registry: it throws (the registry is unreachable), or it *)
(* answers with response.ok and a body.                                    *)
FetchFailure == Throws("Failed to fetch")

(* p.data?.doi and analysis.doi: undefined, of no data or of data without  *)
(* the key, read as the empty string (both are falsy).                     *)
doiOf(data) ==
  IF IsSet(data) /\ "doi" \in DOMAIN data[1] THEN data[1].doi ELSE <<>>

(* analysis.title, undefined read as the empty string likewise. *)
titleOf(analysis) ==
  IF IsSet(analysis) /\ "title" \in DOMAIN analysis[1] THEN analysis[1].title
  ELSE ""

(* Mutant of doiLookup: the body of the answer is used whatever its status. *)
doiLookupIgnoresOk(analysis, doiResponse) ==
  IF ~truthy(doiOf(analysis)) THEN Returns(Undefined)
  ELSE IF doiResponse.throws THEN doiResponse
  ELSE Returns(Some(doiResponse.value.message))

(* The lookup by DOI of enrichWithCrossRef: made when the analysis has a   *)
(* DOI; crossRefData is the message of an answer that is ok.               *)
doiLookup(analysis, doiResponse) ==
  IF ~truthy(doiOf(analysis)) THEN Returns(Undefined)
  ELSE IF doiResponse.throws THEN doiResponse
  ELSE IF doiResponse.value.ok THEN Returns(Some(doiResponse.value.message))
  ELSE Returns(Undefined)

(* Mutant of titleSearch: the items are used whatever the status. *)
titleSearchIgnoresOk(analysis, crossRefData, searchResponse) ==
  IF IsSet(crossRefData) \/ titleOf(analysis) = "" THEN Returns(crossRefData)
  ELSE IF searchResponse.throws THEN searchResponse
  ELSE IF searchResponse.value.items # <<>>
    THEN Returns(Some(searchResponse.value.items[1]))
  ELSE Returns(Undefined)

(* The search by title of enrichWithCrossRef: made when the lookup by DOI  *)
(* found nothing and the analysis has a title; the top match is taken.     *)
titleSearch(analysis, crossRefData, searchResponse) ==
  IF IsSet(crossRefData) \/ titleOf(analysis) = "" THEN Returns(crossRefData)
  ELSE IF searchResponse.throws THEN searchResponse
  ELSE IF searchResponse.value.ok /\ searchResponse.value.items # <<>>
    THEN Returns(Some(searchResponse.value.items[1]))
  ELSE Returns(Undefined)

(* The crossRefData of enrichWithCrossRef after its two fetches; a fetch   *)
(* that throws ends the try, and the catch leaves nothing found.           *)
crossRefDataFound(analysis, doiResponse, searchResponse) ==
  LET byDoi == doiLookup(analysis, doiResponse)
      byTitle == titleSearch(analysis, byDoi.value, searchResponse)
  IN  IF byDoi.throws \/ byTitle.throws THEN Undefined ELSE byTitle.value

(***************************************************************************)
(* The draft of the taxonomy.                                              *)
(***************************************************************************)
(* generateTaxonomyDraft over n papers, given what the provider does. *)
generateTaxonomyDraft(n, config, reply) ==
  IF n = 0
    THEN Throws("Cannot generate taxonomy without uploaded papers")
    ELSE LET r == callAIWith(config, "text/plain", reply)
         IN  IF r.throws THEN r
             ELSE IF r.value.kind = "empty"
               THEN Throws("No response text from AI Provider")
               ELSE Returns("fullOutput")

(***************************************************************************)
(* Collection records.                                                     *)
(***************************************************************************)
newPaper(newId, file) ==
  [id |-> newId, fileName |-> file.name, status |-> "analyzing",
   data |-> Undefined, errorMsg |-> Undefined, isDuplicate |-> Undefined]

mapPapers(prev, f(_)) == [i \in 1..Len(prev) |-> f(prev[i])]

ids(ps) == {ps[i].id : i \in 1..Len(ps)}
fileNames(ps) == {ps[i].fileName : i \in 1..Len(ps)}
pipelineIds(ps) == {p.id : p \in ps}

paperOf(ps, id) == ps[CHOOSE i \in 1..Len(ps) : ps[i].id = id]

(* Mutant of hasDoiMatch: the scan sees the records that were listed when  *)
(* the file was accepted, as a collection read before the await would.     *)
hasDoiMatchAtAccept(prev, newId, analysis) ==
  \E i \in 1..Len(prev) :
    /\ prev[i].id < newId
    /\ prev[i].status = "complete"
    /\ truthy(doiOf(prev[i].data))
    /\ truthy(doiOf(analysis))
    /\ sameDoi(doiOf(prev[i].data), doiOf(analysis))

(* The updater of the success path of handleAcceptPaper. *)
hasDoiMatch(prev, newId, analysis) ==
  \E i \in 1..Len(prev) :
    /\ prev[i].id # newId
    /\ prev[i].status = "complete"
    /\ truthy(doiOf(prev[i].data))
    /\ truthy(doiOf(analysis))
    /\ sameDoi(doiOf(prev[i].data), doiOf(analysis))

(* Mutant of completeAnalysis: the records that match are flagged too. *)
completeAnalysisMarkBoth(prev, newId, analysis) ==
  LET isDuplicate == hasDoiMatch(prev, newId, analysis)
      upd(p) == IF p.id = newId
                  THEN [p EXCEPT !.status = "complete", !.data = analysis,
                                 !.isDuplicate = Some(isDuplicate)]
                  ELSE IF /\ p.status = "complete"
                          /\ truthy(doiOf(p.data))
                          /\ sameDoi(doiOf(p.data), doiOf(analysis))
                    THEN [p EXCEPT !.isDuplicate = Some(TRUE)]
                    ELSE p
  IN  mapPapers(prev, upd)

(* Mutant of completeAnalysis: a record that is not listed is added. *)
completeAnalysisUpsert(prev, newId, analysis) ==
  LET isDuplicate == hasDoiMatch(prev, newId, analysis)
      upd(p) == IF p.id = newId
                  THEN [p EXCEPT !.status = "complete", !.data = analysis,
                                 !.isDuplicate = Some(isDuplicate)]
                  ELSE p
      added == [id |-> newId, fileName |-> "a.pdf", status |-> "complete",
                data |-> analysis, errorMsg |-> Undefined,
                isDuplicate |-> Some(isDuplicate)]
  IN  IF \E i \in 1..Len(prev) : prev[i].id = newId
        THEN mapPapers(prev, upd)
        ELSE <<added>> \o prev

completeAnalysis(prev, newId, analysis) ==
  LET isDuplicate == hasDoiMatch(prev, newId, analysis)
      upd(p) == IF p.id = newId
                  THEN [p EXCEPT !.status = "complete", !.data = analysis,
                                 !.isDuplicate = Some(isDuplicate)]
                  ELSE p
  IN  mapPapers(prev, upd)

(* Mutant of failAnalysis: the updater does not compare the id. *)
failAnalysisAll(prev, newId, msg) ==
  mapPapers(prev, LAMBDA p : [p EXCEPT !.status = "error", !.errorMsg = Some(msg)])

(* The updater of the catch path of handleAcceptPaper. *)
failAnalysis(prev, newId, msg) ==
  LET upd(p) == IF p.id = newId
                  THEN [p EXCEPT !.status = "error", !.errorMsg = Some(msg)]
                  ELSE p
  IN  mapPapers(prev, upd)

(***************************************************************************)
(* State.                                                                  *)
(***************************************************************************)
VARIABLES
  papers,        \* App: the collection, newest accepted first
  pendingFile,   \* App: the file shown to the RelevanceChecker, or undefined
  editingPaper,  \* App: the record snapshot given to the MetadataEditor
  mountPapers,   \* the papers of App's first render, which handleDrop closes over
  nextId,        \* the next value of crypto.randomUUID()
  checker,       \* RelevanceChecker: isChecking, result, and where handleCheck is
  pipelines,     \* the handleAcceptPaper calls that await analyzePaper
  confirmDialog, \* the window.confirm of processFile while it blocks the page
  commitLog,     \* history: the records committed by their pipelines, in
                 \* commit order, each with whether it was edited since; a
                 \* record leaves when it is removed or imported over
  backup,        \* the text of the downloaded hri_assistant_backup.json
  taxonomy,      \* TaxonomyGenerator: isLoading, result, generatedWithCount
  stored,        \* localStorage 'hri_papers', and whether its last write threw
  aiSettings,    \* localStorage 'aiSettings', and what the last call read
  lastOp         \* history: the operation of the step that led here, with
                 \* its inputs and the collection before it

vars == <<papers, pendingFile, editingPaper, mountPapers, nextId, checker,
          pipelines, confirmDialog, commitLog, backup, taxonomy, stored,
          aiSettings, lastOp>>

(* The step that led here is none of the recorded operations. *)
NoOp == [op |-> "none"]

(* useState initialisers of the TaxonomyGenerator, nothing saved; history:  *)
(* the ids of the records whose data the call in flight was given, and of  *)
(* those the draft shown was made of.                                      *)
taxonomyIdle ==
  [isLoading |-> FALSE, result |-> Undefined, generatedWithCount |-> 0,
   completedPapers |-> Undefined, taxonomyDraftPaperCount |-> Undefined,
   givenIds |-> {}, draftIds |-> {}]

(* The step leaves the backup file, the TaxonomyGenerator and localStorage  *)
(* alone and is not a recorded operation.                                  *)
quiet ==
  /\ UNCHANGED <<backup, taxonomy, stored, aiSettings>>
  /\ lastOp' = NoOp

(* Relevance results the model may return: the two fields are independent. *)
Scores == {39, 40}
RelevanceResults == [isRelevant : BOOLEAN, score : Scores]

(* The RelevanceChecker before its effect has run, and when unmounted. *)
checkerIdle ==
  [isChecking |-> FALSE, result |-> Undefined, stage |-> "idle", file |-> Undefined]

(* useState initialisers and the effect of a mount for file. *)
checkerMounted(file) ==
  [isChecking |-> TRUE, result |-> Undefined, stage |-> "extractPdfText",
   file |-> Some(file)]

(* localStorage after the first render of a first visit: the effect has    *)
(* written the text of the empty collection.                               *)
storedEmpty == [text |-> <<>>, failed |-> FALSE]

(* Nothing saved under 'aiSettings', no call of a provider made yet. *)
aiSettingsUnset == [saved |-> Undefined, lastRead |-> Undefined]

Init ==
  /\ papers = <<>>
  /\ pendingFile = Undefined
  /\ editingPaper = Undefined
  /\ mountPapers = <<>>
  /\ nextId = 1
  /\ checker = checkerIdle
  /\ pipelines = {}
  /\ confirmDialog = Undefined
  /\ commitLog = <<>>
  /\ backup = Undefined
  /\ taxonomy = taxonomyIdle
  /\ stored = storedEmpty
  /\ aiSettings = aiSettingsUnset
  /\ lastOp = NoOp

(***************************************************************************)
(* Submission: handleFileSelect, handleDrop, processFile.                  *)
(***************************************************************************)
(* The RelevanceChecker renders an overlay over the page while it checks   *)
(* and while it shows a result; it renders nothing otherwise.              *)
modalShown == IsSet(pendingFile) /\ (checker.isChecking \/ IsSet(checker.result))

(* The decision point: the Reject and Add buttons are rendered. *)
decisionPoint == IsSet(pendingFile) /\ ~checker.isChecking /\ IsSet(checker.result)

(* setPendingFile(file): a RelevanceChecker is mounted, and its effect runs *)
(* handleCheck, only when none is mounted yet.                             *)
setPendingFile(file) ==
  /\ pendingFile' = Some(file)
  /\ checker' = IF IsSet(pendingFile) THEN checker ELSE checkerMounted(file)

(* Mutant of processFile: the record is created at submission, before the  *)
(* relevance gate.                                                         *)
processFileAddsRecord(file, seen) ==
  /\ file.type = "application/pdf"
  /\ nextId <= MaxAccepts
  /\ papers' = <<newPaper(nextId, file)>> \o papers
  /\ nextId' = nextId + 1
  /\ UNCHANGED <<pendingFile, checker, confirmDialog, editingPaper,
                 mountPapers, pipelines, commitLog>>

(* processFile up to its window.confirm, over the papers its closure sees. *)
processFile(file, seen) ==
  /\ IF file.type # "application/pdf"
       THEN UNCHANGED <<pendingFile, checker, confirmDialog>>
       ELSE IF file.name \in fileNames(seen)
         THEN /\ confirmDialog' = Some(file)
              /\ UNCHANGED <<pendingFile, checker>>
         ELSE /\ setPendingFile(file)
              /\ UNCHANGED confirmDialog
  /\ UNCHANGED <<papers, editingPaper, mountPapers, nextId, pipelines, commitLog>>

(* The file input is reachable when no overlay covers the page. *)
handleFileSelect(file) ==
  /\ ~modalShown
  /\ processFile(file, papers)

(* useCallback(..., []) keeps the handleDrop of the first render, and with *)
(* it the processFile and the papers of the first render.                  *)
handleDrop(file) ==
  /\ ~modalShown
  /\ processFile(file, mountPapers)

(* The answer to the window.confirm of processFile. *)
answerConfirm(shouldProceed) ==
  /\ IsSet(confirmDialog)
  /\ confirmDialog' = Undefined
  /\ IF shouldProceed
       THEN setPendingFile(confirmDialog[1])
       ELSE UNCHANGED <<pendingFile, checker>>
  /\ UNCHANGED <<papers, editingPaper, mountPapers, nextId, pipelines, commitLog>>

(***************************************************************************)
(* RelevanceChecker.handleCheck: two awaits.                               *)
(***************************************************************************)
(* catch and finally of handleCheck: alert, result stays null. *)
checkFailed == [checker EXCEPT !.isChecking = FALSE, !.stage = "ended"]

extractPdfText(ok) ==
  /\ checker.stage = "extractPdfText"
  /\ checker' = IF ok THEN [checker EXCEPT !.stage = "checkPaperRelevance"]
                ELSE checkFailed
  /\ UNCHANGED <<papers, pendingFile, editingPaper, mountPapers, nextId,
                 pipelines, confirmDialog, commitLog>>

(* checkPaperRelevance returns what JSON.parse returns. *)
checkPaperRelevance(config, reply) ==
  parseReply(callAI(config, reply), "No response from AI")

(* handleCheck after its second await; r is what checkPaperRelevance did. *)
handleCheckResult(r) ==
  /\ checker.stage = "checkPaperRelevance"
  /\ checker' = IF r.throws THEN checkFailed
                ELSE [checker EXCEPT !.isChecking = FALSE, !.stage = "ended",
                                     !.result = r.value]
  /\ UNCHANGED <<papers, pendingFile, editingPaper, mountPapers, nextId,
                 pipelines, confirmDialog, commitLog>>

(***************************************************************************)
(* The decision: handleAcceptPaper up to its await, handleRejectPaper.     *)
(***************************************************************************)
startPipeline(newId, file) ==
  [id |-> newId, file |-> file, stage |-> "extractTextFromPdf",
   analysis |-> Undefined]

handleAcceptPaper(file) ==
  /\ nextId <= MaxAccepts
  /\ LET newId == nextId
     IN  /\ papers' = <<newPaper(newId, file)>> \o papers
         /\ pipelines' = pipelines \cup {startPipeline(newId, file)}
  /\ nextId' = nextId + 1
  /\ pendingFile' = Undefined
  /\ checker' = checkerIdle
  /\ UNCHANGED <<editingPaper, mountPapers, confirmDialog, commitLog>>

(* The "Add to Dataset" button of the RelevanceChecker. *)
onAccept ==
  /\ decisionPoint
  /\ handleAcceptPaper(pendingFile[1])

handleRejectPaper ==
  /\ pendingFile' = Undefined
  /\ checker' = checkerIdle
  /\ UNCHANGED <<papers, editingPaper, mountPapers, nextId, pipelines,
                 confirmDialog, commitLog>>

(* The "Reject Paper" button of the RelevanceChecker. *)
onReject ==
  /\ decisionPoint
  /\ handleRejectPaper

(***************************************************************************)
(* analyzePaper, one action per await, and the commit that follows it.     *)
(***************************************************************************)
without(log, id) == SelectSeq(log, LAMBDA e : e.id # id)

(* Mutant of pipelineFails: the catch does not set the record. *)
pipelineFailsUnrecorded(p, msg) ==
  /\ pipelines' = pipelines \ {p}
  /\ UNCHANGED <<papers, commitLog>>

(* catch of handleAcceptPaper *)
pipelineFails(p, msg) ==
  /\ papers' = failAnalysis(papers, p.id, msg)
  /\ pipelines' = pipelines \ {p}
  /\ UNCHANGED commitLog

(* setPapers of the try of handleAcceptPaper *)
pipelineCommits(p, analysis) ==
  /\ papers' = completeAnalysis(papers, p.id, analysis)
  /\ pipelines' = pipelines \ {p}
  /\ commitLog' = IF p.id \in ids(papers)
                    THEN Append(without(commitLog, p.id),
                                [id |-> p.id, edited |-> FALSE])
                    ELSE commitLog

extractTextFromPdf(p, ok) ==
  /\ p \in pipelines
  /\ p.stage = "extractTextFromPdf"
  /\ IF ok
       THEN /\ pipelines' = (pipelines \ {p}) \cup {[p EXCEPT !.stage = "callAI"]}
            /\ UNCHANGED <<papers, commitLog>>
       ELSE pipelineFails(p, "pdf error")
  /\ UNCHANGED <<pendingFile, editingPaper, mountPapers, nextId, checker,
                 confirmDialog>>

(* analyzePaper from callAI to JSON.parse *)
analyzePaperParse(config, reply) ==
  parseReply(callAI(config, reply), "No response text from AI Provider")

(* analyzePaper after the await of callAI; r is what the call and the      *)
(* parsing did.                                                            *)
analyzePaperReply(p, r) ==
  /\ p \in pipelines
  /\ p.stage = "callAI"
  /\ IF r.throws
       THEN pipelineFails(p, r.msg)
       ELSE /\ pipelines' = (pipelines \ {p}) \cup
                  {[p EXCEPT !.stage = "enrichWithCrossRef", !.analysis = r.value]}
            /\ UNCHANGED <<papers, commitLog>>
  /\ UNCHANGED <<pendingFile, editingPaper, mountPapers, nextId, checker,
                 confirmDialog>>

analyzePaperEnriched(p, crossRefData) ==
  /\ p \in pipelines
  /\ p.stage = "enrichWithCrossRef"
  /\ pipelineCommits(p, enrichWithCrossRef(p.analysis, crossRefData))
  /\ UNCHANGED <<pendingFile, editingPaper, mountPapers, nextId, checker,
                 confirmDialog>>

(***************************************************************************)
(* handleRemove, handleEdit, handleSaveEdit.                               *)
(***************************************************************************)
(* Mutant of handleRemove: a record under analysis is kept. *)
handleRemoveSettled(id) ==
  /\ id \in ids(papers)
  /\ papers' = SelectSeq(papers, LAMBDA p : p.id # id \/ p.status = "analyzing")
  /\ commitLog' = without(commitLog, id)
  /\ UNCHANGED <<pendingFile, editingPaper, mountPapers, nextId, checker,
                 pipelines, confirmDialog>>

handleRemove(id) ==
  /\ id \in ids(papers)
  /\ papers' = SelectSeq(papers, LAMBDA p : p.id # id)
  /\ commitLog' = without(commitLog, id)
  /\ UNCHANGED <<pendingFile, editingPaper, mountPapers, nextId, checker,
                 pipelines, confirmDialog>>

(* The editor is offered for, and opens on, a record that has data. *)
handleEdit(paper) ==
  /\ paper.status = "complete"
  /\ IsSet(paper.data)
  /\ editingPaper = Undefined
  /\ editingPaper' = Some(paper)
  /\ UNCHANGED <<papers, pendingFile, mountPapers, nextId, checker, pipelines,
                 confirmDialog, commitLog>>

cancelEdit ==
  /\ IsSet(editingPaper)
  /\ editingPaper' = Undefined
  /\ UNCHANGED <<papers, pendingFile, mountPapers, nextId, checker, pipelines,
                 confirmDialog, commitLog>>

(* Mutant of duplicatePaper: the DOIs are compared as they were typed. *)
duplicatePaperExact(ps, editedId, updatedData) ==
  \E i \in 1..Len(ps) :
    /\ ps[i].id # editedId
    /\ truthy(doiOf(ps[i].data))
    /\ truthy(updatedData.doi)
    /\ doiOf(ps[i].data) = updatedData.doi

(* papers.find(...) of handleSaveEdit *)
duplicatePaper(ps, editedId, updatedData) ==
  \E i \in 1..Len(ps) :
    /\ ps[i].id # editedId
    /\ truthy(doiOf(ps[i].data))
    /\ truthy(updatedData.doi)
    /\ sameDoi(doiOf(ps[i].data), updatedData.doi)

(* Mutant of saveEdit: the flag of the edited record is kept. *)
saveEditKeepsFlag(prev, editedId, updatedData) ==
  mapPapers(prev, LAMBDA p : IF p.id = editedId
                               THEN [p EXCEPT !.data = Some(updatedData)]
                               ELSE p)

saveEdit(prev, editedId, updatedData) ==
  LET upd(p) == IF p.id = editedId
                  THEN [p EXCEPT !.data = Some(updatedData),
                                 !.isDuplicate = Some(FALSE)]
                  ELSE p
  IN  mapPapers(prev, upd)

handleSaveEdit(updatedData, confirmSave) ==
  /\ IsSet(editingPaper)
  /\ IF duplicatePaper(papers, editingPaper[1].id, updatedData) /\ ~confirmSave
       THEN UNCHANGED <<papers, editingPaper, commitLog>>
       ELSE /\ papers' = saveEdit(papers, editingPaper[1].id, updatedData)
            /\ editingPaper' = Undefined
            /\ commitLog' = [i \in 1..Len(commitLog) |->
                 IF commitLog[i].id = editingPaper[1].id
                   THEN [commitLog[i] EXCEPT !.edited = TRUE]
                   ELSE commitLog[i]]
  /\ UNCHANGED <<pendingFile, mountPapers, nextId, checker, pipelines,
                 confirmDialog>>

(***************************************************************************)
(* handleJsonUpload.                                                       *)
(***************************************************************************)
(* A record of a backup of another installation. *)
extPaper ==
  [id |-> 0, fileName |-> "b.pdf", status |-> "complete",
   data |-> Some([doi |-> <<"x">>]), errorMsg |-> Undefined,
   isDuplicate |-> Some(FALSE)]

(* Backup files at hand: one of another installation, and the backup made  *)
(* of <<record, extPaper>> right after a record now listed was accepted.   *)
ImportBatches(ps) ==
  {<<extPaper>>} \cup
  {<<[ps[i] EXCEPT !.status = "analyzing", !.data = Undefined,
                   !.errorMsg = Undefined, !.isDuplicate = Undefined],
     extPaper>> : i \in {j \in 1..Len(ps) : ps[j].id # extPaper.id}}

(* Mutant of mergePapers: the imported records are all appended. *)
mergePapersAll(prev, importedPapers) == prev \o importedPapers

(* The merge branch of handleJsonUpload. *)
mergePapers(prev, importedPapers) ==
  LET existingIds == ids(prev)
  IN  prev \o SelectSeq(importedPapers, LAMBDA p : p.id \notin existingIds)

(* Mutant of handleJsonUpload: the answer to the confirmation is ignored   *)
(* and the file is merged.                                                 *)
handleJsonUploadMerges(importedPapers, confirmReplace) ==
  /\ papers' = mergePapers(papers, importedPapers)
  /\ UNCHANGED <<commitLog, pendingFile, editingPaper, mountPapers, nextId,
                 checker, pipelines, confirmDialog>>

handleJsonUpload(importedPapers, confirmReplace) ==
  /\ IF confirmReplace
       THEN /\ papers' = importedPapers
            /\ commitLog' = <<>>
       ELSE /\ papers' = mergePapers(papers, importedPapers)
            /\ UNCHANGED commitLog
  /\ UNCHANGED <<pendingFile, editingPaper, mountPapers, nextId, checker,
                 pipelines, confirmDialog>>

(***************************************************************************)
(* handleBackup: JSON.stringify(papers), and the JSON.parse of the import. *)
(***************************************************************************)
(* The keys of a record that JSON.stringify may omit. *)
optionalKeys == {"data", "errorMsg", "isDuplicate"}

(* JSON.stringify of a record: a key whose value is undefined is omitted;  *)
(* a falsy scalar payload, which is <<>> here, is omitted with it.          *)
stringifyPaper(p) ==
  [k \in {key \in DOMAIN p : key \in optionalKeys => IsSet(p[key])} |->
     IF k \in optionalKeys THEN p[k][1] ELSE p[k]]

JSONstringify(ps) == [i \in 1..Len(ps) |-> stringifyPaper(ps[i])]

(* JSON.parse of an object, read as an AnalyzedPaper: a key that is absent  *)
(* reads as undefined.                                                      *)
parsePaper(o) ==
  [id |-> o.id, fileName |-> o.fileName, status |-> o.status,
   data |-> IF "data" \in DOMAIN o THEN Some(o.data) ELSE Undefined,
   errorMsg |-> IF "errorMsg" \in DOMAIN o THEN Some(o.errorMsg) ELSE Undefined,
   isDuplicate |-> IF "isDuplicate" \in DOMAIN o THEN Some(o.isDuplicate)
                   ELSE Undefined]

JSONparse(json) == [i \in 1..Len(json) |-> parsePaper(json[i])]

(* The file is written; exported keeps the collection it was made of. *)
handleBackup ==
  /\ backup' = Some([text |-> JSONstringify(papers), exported |-> papers])
  /\ UNCHANGED <<papers, pendingFile, editingPaper, mountPapers, nextId,
                 checker, pipelines, confirmDialog, commitLog, stored,
                 aiSettings>>

(***************************************************************************)
(* TaxonomyGenerator.handleGenerate: one await.                            *)
(***************************************************************************)
(* papers.filter(p => p.status === 'complete' && p.data) *)
completedPapers(ps) ==
  SelectSeq(ps, LAMBDA p : p.status = "complete" /\ IsSet(p.data))

(* const isStale = result && generatedWithCount !== completedPapers.length *)
isStale ==
  /\ IsSet(taxonomy.result)
  /\ taxonomy.generatedWithCount # Len(completedPapers(papers))

(* handleGenerate up to its await; the call keeps the completedPapers of   *)
(* the render it was started from, of which the length is read.            *)
handleGenerate ==
  /\ ~taxonomy.isLoading
  /\ taxonomy' = [taxonomy EXCEPT !.isLoading = TRUE,
                     !.completedPapers = Some(Len(completedPapers(papers))),
                     !.givenIds = ids(completedPapers(papers))]
  /\ UNCHANGED <<papers, pendingFile, editingPaper, mountPapers, nextId,
                 checker, pipelines, confirmDialog, commitLog, backup, stored,
                 aiSettings>>

(* handleGenerate after its await; r is what generateTaxonomyDraft did. *)
handleGenerateDone(r) ==
  /\ taxonomy.isLoading
  /\ taxonomy' =
       IF r.throws
         THEN [taxonomy EXCEPT !.isLoading = FALSE, !.completedPapers = Undefined,
                 !.givenIds = {}]
         ELSE [taxonomy EXCEPT !.isLoading = FALSE, !.completedPapers = Undefined,
                 !.givenIds = {}, !.draftIds = taxonomy.givenIds,
                 !.result = Some(r.value),
                 !.generatedWithCount = taxonomy.completedPapers[1],
                 !.taxonomyDraftPaperCount = taxonomy.completedPapers]
  /\ UNCHANGED <<papers, pendingFile, editingPaper, mountPapers, nextId,
                 checker, pipelines, confirmDialog, commitLog, backup, stored,
                 aiSettings>>

(***************************************************************************)
(* Specifications.                                                         *)
(***************************************************************************)
PdfFiles == {f \in Files : f.type = "application/pdf"}

(* What analyzePaper can make of any settings and any provider answer. *)
AnalysisOutcomes ==
  {analyzePaperParse(config, reply) :
     config \in Configs, reply \in ProviderReplies(ParsedAnalyses)}

(* What checkPaperRelevance can make of any settings and provider answer. *)
RelevanceOutcomes ==
  {checkPaperRelevance(config, reply) :
     config \in Configs,
     reply \in ProviderReplies({Undefined} \cup {Some(r) : r \in RelevanceResults})}

(* The pipeline of one record, every await a step. *)
pipelineStep(outcomes, registry) ==
  \/ \E p \in pipelines, ok \in BOOLEAN : extractTextFromPdf(p, ok)
  \/ \E p \in pipelines, r \in outcomes : analyzePaperReply(p, r)
  \/ \E p \in pipelines, crossRefData \in registry : analyzePaperEnriched(p, crossRefData)

(* The MetadataEditor is an overlay over the whole page: while it is open  *)
(* no other control of the page can be used; pipelines go on.              *)
editorShown == IsSet(editingPaper)

(* The collection manager: a file arrives from the decision point. *)
Next ==
  \/ /\ ~editorShown
     /\ \/ \E file \in {f \in PdfFiles : f.name = "a.pdf"} : handleAcceptPaper(file)
        \/ \E id \in ids(papers) : handleRemove(id)
        \/ \E i \in 1..Len(papers) : handleEdit(papers[i])
        \/ \E importedPapers \in ImportBatches(papers), confirmReplace \in BOOLEAN :
             handleJsonUpload(importedPapers, confirmReplace)
     /\ quiet
  \/ pipelineStep(AnalysisOutcomes, CrossRefData) /\ quiet
  \/ cancelEdit /\ quiet
  \/ \E updatedData \in PaperAnalysis, confirmSave \in BOOLEAN :
       handleSaveEdit(updatedData, confirmSave) /\ quiet

Spec == Init /\ [][Next]_vars

(* The intake: submission, screening and decision, over pipelines whose    *)
(* provider either fails or returns a record without DOI.                  *)
IntakeOutcomes == {ProviderFailure, Returns(Some([doi |-> <<>>]))}

NextIntake ==
  \/ \E shouldProceed \in BOOLEAN : answerConfirm(shouldProceed) /\ quiet
  \/ /\ confirmDialog = Undefined
     /\ quiet
     /\ \/ \E file \in Files : handleFileSelect(file)
        \/ \E file \in Files : handleDrop(file)
        \/ \E ok \in BOOLEAN : extractPdfText(ok)
        \/ \E r \in RelevanceOutcomes : handleCheckResult(r)
        \/ onAccept
        \/ onReject
        \/ pipelineStep(IntakeOutcomes, {Undefined})
        \/ ~modalShown /\ \E id \in ids(papers) : handleRemove(id)

SpecIntake == Init /\ [][NextIntake]_vars

(* The manager's specifications run over pipelines whose provider fails or *)
(* returns one DOI, and record their operations in lastOp.                 *)
ManageOutcomes == {ProviderFailure, Returns(Some([doi |-> <<"x">>]))}

(* handleRemove, recorded. *)
removeStep ==
  /\ \E id \in ids(papers) :
       /\ handleRemove(id)
       /\ lastOp' = [op |-> "handleRemove", before |-> papers, id |-> id]
  /\ UNCHANGED <<backup, taxonomy, stored, aiSettings>>

(* handleSaveEdit, recorded. *)
saveEditStep ==
  /\ \E updatedData \in PaperAnalysis, confirmSave \in BOOLEAN :
       /\ handleSaveEdit(updatedData, confirmSave)
       /\ lastOp' = [op |-> "handleSaveEdit", before |-> papers,
                     id |-> editingPaper[1].id, updatedData |-> updatedData,
                     confirmSave |-> confirmSave]
  /\ UNCHANGED <<backup, taxonomy, stored, aiSettings>>

(* The files the import can be given: the backup downloaded last. *)
BackupFiles == IF IsSet(backup) THEN {JSONparse(backup[1].text)} ELSE {}

(* handleJsonUpload of the backup file, recorded. *)
importStep ==
  /\ \E importedPapers \in BackupFiles, confirmReplace \in BOOLEAN :
       /\ handleJsonUpload(importedPapers, confirmReplace)
       /\ lastOp' = [op |-> "handleJsonUpload", before |-> papers,
                     importedPapers |-> importedPapers,
                     confirmReplace |-> confirmReplace]
  /\ UNCHANGED <<backup, taxonomy, stored, aiSettings>>

backupStep ==
  /\ handleBackup
  /\ UNCHANGED <<taxonomy>>
  /\ lastOp' = NoOp

(* The collection manager and the MetadataEditor. *)
NextEdit ==
  \/ /\ ~editorShown
     /\ \/ /\ \E file \in {f \in PdfFiles : f.name = "a.pdf"} : handleAcceptPaper(file)
           /\ quiet
        \/ removeStep
        \/ /\ \E i \in 1..Len(papers) : handleEdit(papers[i])
           /\ quiet
  \/ pipelineStep(ManageOutcomes, {Undefined}) /\ quiet
  \/ cancelEdit /\ quiet
  \/ saveEditStep

SpecEdit == Init /\ [][NextEdit]_vars

(* The collection manager and its backup file. *)
NextBackup ==
  \/ /\ \E file \in {f \in PdfFiles : f.name = "a.pdf"} : handleAcceptPaper(file)
     /\ quiet
  \/ removeStep
  \/ importStep
  \/ backupStep
  \/ pipelineStep(ManageOutcomes, {Undefined}) /\ quiet

SpecBackup == Init /\ [][NextBackup]_vars

(* The analysis service: the gateway, the extractor and the enrichment     *)
(* with all they read, for one paper at a time; the calls of the gateway   *)
(* and of the enrichment are recorded in lastOp.                           *)
DraftFull ==
  [doi |-> <<"x">>, title |-> "t", url |-> <<"u">>, journal |-> "j",
   volume |-> "v", issue |-> "i", year |-> "y", abstract |-> "a"]

(* A reply that is valid JSON and has one key of the schema only. *)
DraftPartial == [abstract |-> "a"]

ServiceDrafts ==
  {DraftFull, [DraftFull EXCEPT !.doi = <<>>], [DraftFull EXCEPT !.title = ""],
   [DraftFull EXCEPT !.doi = <<>>, !.title = ""],
   [DraftFull EXCEPT !.journal = "", !.volume = "", !.url = <<>>],
   DraftPartial}

WorkFull ==
  [DOI |-> <<"y">>, containerTitle |-> <<"J">>, volume |-> "V", issue |-> "I",
   published |-> Some(2020)]

WorkEmpty ==
  [DOI |-> <<>>, containerTitle |-> <<>>, volume |-> "", issue |-> "",
   published |-> Undefined]

Works ==
  {WorkFull, WorkEmpty, [WorkEmpty EXCEPT !.DOI = <<"y">>],
   [WorkFull EXCEPT !.DOI = <<>>, !.published = Some(1999)],
   [WorkFull EXCEPT !.containerTitle = <<"">>, !.issue = ""]}

(* Answers to the lookup by DOI; an answer that is not ok has a body too. *)
DoiResponses ==
  {FetchFailure, Returns([ok |-> FALSE, message |-> WorkFull])}
    \cup {Returns([ok |-> TRUE, message |-> w]) : w \in Works}

(* Answers to the search by title. *)
SearchResponses ==
  {FetchFailure, Returns([ok |-> FALSE, items |-> <<WorkFull>>]),
   Returns([ok |-> TRUE, items |-> <<>>]),
   Returns([ok |-> TRUE, items |-> <<WorkEmpty, WorkFull>>])}
    \cup {Returns([ok |-> TRUE, items |-> <<w>>]) : w \in Works}

(* What JSON.parse may return for the extractor of the service. *)
ParsedDrafts == {Undefined} \cup {Some(a) : a \in ServiceDrafts}

(* analyzePaper's call of the gateway and the parsing, recorded. *)
analyzeStep ==
  /\ \E p \in pipelines, config \in Configs, reply \in ProviderReplies(ParsedDrafts) :
       /\ analyzePaperReply(p, analyzePaperParse(config, reply))
       /\ lastOp' = [op |-> "callAI", config |-> config,
                     responseMimeType |-> "application/json",
                     request |-> callAIRequest(config, "application/json"),
                     result |-> callAI(config, reply)]
  /\ UNCHANGED <<backup, taxonomy, stored, aiSettings>>

(* analyzePaper's enrichment and the commit, recorded. *)
enrichStep ==
  /\ \E p \in pipelines, doiResponse \in DoiResponses,
        searchResponse \in SearchResponses :
       /\ analyzePaperEnriched(p,
            crossRefDataFound(p.analysis, doiResponse, searchResponse))
       /\ lastOp' = [op |-> "enrichWithCrossRef", id |-> p.id,
                     analysis |-> p.analysis, doiResponse |-> doiResponse,
                     searchResponse |-> searchResponse]
  /\ UNCHANGED <<backup, taxonomy, stored, aiSettings>>

(* The end of handleGenerate, the call of the gateway recorded if made. *)
generateStep ==
  /\ \E config \in Configs, reply \in ProviderReplies({Undefined}) :
       /\ handleGenerateDone(
            generateTaxonomyDraft(taxonomy.completedPapers[1], config, reply))
       /\ lastOp' = IF taxonomy.completedPapers[1] = 0 THEN NoOp
                    ELSE [op |-> "callAI", config |-> config,
                          responseMimeType |-> "text/plain",
                          request |-> callAIRequest(config, "text/plain"),
                          result |-> callAIWith(config, "text/plain", reply)]

NextService ==
  \/ /\ papers = <<>>
     /\ pipelines = {}
     /\ \E file \in {f \in PdfFiles : f.name = "a.pdf"} : handleAcceptPaper(file)
     /\ quiet
  \/ /\ \E id \in ids(papers) : handleRemove(id)
     /\ quiet
  \/ /\ \E p \in pipelines, ok \in BOOLEAN : extractTextFromPdf(p, ok)
     /\ quiet
  \/ analyzeStep
  \/ enrichStep
  \/ /\ handleGenerate
     /\ lastOp' = NoOp
  \/ generateStep

SpecService == Init /\ [][NextService]_vars

(* The pipelines in flight side by side: files are accepted and records    *)
(* removed while the calls of the pipelines return or fail, each call in   *)
(* its own time.                                                           *)
LiveOutcomes ==
  {ProviderFailure, Returns(Some([doi |-> <<"x">>])),
   Returns(Some([doi |-> <<" ", "X">>]))}

(* A step of the pipeline of id: one of its awaits is over. *)
pipelineStepOf(id) ==
  \E p \in pipelines :
    /\ p.id = id
    /\ \/ \E ok \in BOOLEAN : extractTextFromPdf(p, ok)
       \/ \E r \in LiveOutcomes : analyzePaperReply(p, r)
       \/ analyzePaperEnriched(p, Undefined)
    /\ quiet

NextLive ==
  \/ /\ \E file \in {f \in PdfFiles : f.name = "a.pdf"} : handleAcceptPaper(file)
     /\ quiet
  \/ /\ \E id \in ids(papers) : handleRemove(id)
     /\ quiet
  \/ \E id \in 1..MaxAccepts : pipelineStepOf(id)

(* Every call of a pipeline eventually returns or fails: no await of a     *)
(* pipeline in flight is pending for ever.                                 *)
SpecLive ==
  /\ Init
  /\ [][NextLive]_vars
  /\ \A id \in 1..MaxAccepts : WF_vars(pipelineStepOf(id))

(* The collection manager and files of other installations: a backup with *)
(* one record, and two such backups put together into one file, which has  *)
(* the id of the record twice.                                             *)
ExternalFiles ==
  {<<extPaper>>, <<extPaper, [extPaper EXCEPT !.fileName = "c.pdf"]>>}

NextImport ==
  \/ /\ \E file \in {f \in PdfFiles : f.name = "a.pdf"} : handleAcceptPaper(file)
     /\ quiet
  \/ /\ \E id \in ids(papers) : handleRemove(id)
     /\ quiet
  \/ /\ \E importedPapers \in ExternalFiles, confirmReplace \in BOOLEAN :
          handleJsonUpload(importedPapers, confirmReplace)
     /\ quiet
  \/ pipelineStep(ManageOutcomes, {Undefined}) /\ quiet

SpecImport == Init /\ [][NextImport]_vars

(* The collection manager where the user does not wait: the overlay of the *)
(* MetadataEditor covers the page for the mouse, while the keyboard still  *)
(* reaches the Remove buttons and the import under it; the import is of a  *)
(* backup made when the collection was empty. The end of a pipeline is     *)
(* recorded in lastOp.                                                     *)
pipelineEndStep ==
  /\ pipelineStep(ManageOutcomes, {Undefined})
  /\ lastOp' =
       IF pipelineIds(pipelines') = pipelineIds(pipelines) THEN NoOp
       ELSE [op |-> "pipelineEnds", before |-> papers,
             id |-> CHOOSE id \in pipelineIds(pipelines) :
                      id \notin pipelineIds(pipelines')]
  /\ UNCHANGED <<backup, taxonomy, stored, aiSettings>>

NextRace ==
  \/ /\ ~editorShown
     /\ \/ \E file \in {f \in PdfFiles : f.name = "a.pdf"} : handleAcceptPaper(file)
        \/ \E i \in 1..Len(papers) : handleEdit(papers[i])
     /\ quiet
  \/ removeStep
  \/ handleJsonUpload(JSONparse(JSONstringify(<<>>)), TRUE) /\ quiet
  \/ pipelineEndStep
  \/ cancelEdit /\ quiet
  \/ saveEditStep

SpecRace == Init /\ [][NextRace]_vars

(***************************************************************************)
(* The settings: AISettingsPanel.handleSave and the reads of callAI.       *)
(***************************************************************************)
(* The configuration callAI uses when nothing is saved. *)
defaultConfig ==
  [provider |-> "claude", orangeApiKey |-> FALSE, geminiApiKey |-> FALSE]

(* Mutant of readConfig: the configuration is the one of the time the      *)
(* module was loaded, when nothing was saved.                              *)
readConfigAtLoad(saved) == defaultConfig

(* const settings = localStorage.getItem('aiSettings');                    *)
(* const config = settings ? JSON.parse(settings) : {...}                  *)
readConfig(saved) == IF IsSet(saved) THEN saved[1] ELSE defaultConfig

(* AISettingsPanel.handleSave: the settings of the panel are written. *)
handleSave(settings) ==
  /\ aiSettings' = [aiSettings EXCEPT !.saved = Some(settings)]
  /\ UNCHANGED <<papers, pendingFile, editingPaper, mountPapers, nextId,
                 checker, pipelines, confirmDialog, commitLog, backup,
                 taxonomy, stored>>

(* The settings the user saves: either provider with its key, Gemini       *)
(* without its key, and the proxy without its key.                         *)
SettingsSaved ==
  {[provider |-> "claude", orangeApiKey |-> TRUE, geminiApiKey |-> FALSE],
   [provider |-> "gemini", orangeApiKey |-> TRUE, geminiApiKey |-> TRUE],
   [provider |-> "gemini", orangeApiKey |-> TRUE, geminiApiKey |-> FALSE],
   [provider |-> "claude", orangeApiKey |-> FALSE, geminiApiKey |-> TRUE]}

SettingsReplies ==
  {ProviderFailure, Returns(JsonText(Some([doi |-> <<"x">>]), FALSE))}

(* analyzePaper's call of the gateway with the settings callAI reads,      *)
(* recorded with the configuration the call before it had read.            *)
analyzeWithSettings ==
  /\ \E p \in pipelines, reply \in SettingsReplies :
       LET config == readConfig(aiSettings.saved)
       IN  /\ analyzePaperReply(p, analyzePaperParse(config, reply))
           /\ aiSettings' = [aiSettings EXCEPT !.lastRead = Some(config)]
           /\ lastOp' = [op |-> "callAI", config |-> config,
                         responseMimeType |-> "application/json",
                         request |-> callAIRequest(config, "application/json"),
                         result |-> callAI(config, reply),
                         previous |-> aiSettings.lastRead]
  /\ UNCHANGED <<backup, taxonomy, stored>>

(* The pipelines and the settings panel, which is open over them. *)
NextSettings ==
  \/ /\ \E file \in {f \in PdfFiles : f.name = "a.pdf"} : handleAcceptPaper(file)
     /\ quiet
  \/ /\ \E settings \in SettingsSaved : handleSave(settings)
     /\ lastOp' = NoOp
  \/ /\ \E p \in pipelines, ok \in BOOLEAN : extractTextFromPdf(p, ok)
     /\ quiet
  \/ analyzeWithSettings
  \/ /\ \E p \in pipelines : analyzePaperEnriched(p, Undefined)
     /\ quiet

SpecSettings == Init /\ [][NextSettings]_vars

(***************************************************************************)
(* App's persistence: the effect on [papers] and the initialiser of the    *)
(* papers state.                                                           *)
(***************************************************************************)
(* Mutant of persist: the effect has no dependency and never runs again. *)
persistOnMountOnly(ps, ok) == stored

(* localStorage.setItem('hri_papers', JSON.stringify(papers)) in its try:  *)
(* a setItem that throws (the quota is exceeded) is caught and logged, and *)
(* the value stored before stays.                                          *)
persist(ps, ok) ==
  IF ok THEN [text |-> JSONstringify(ps), failed |-> FALSE]
  ELSE [stored EXCEPT !.failed = TRUE]

(* The room a text takes in the storage, counted in records and analyses. *)
textSize(json) ==
  Len(json) + Cardinality({i \in 1..Len(json) : "data" \in DOMAIN json[i]})

(* setItem may throw for want of room when the text to write is larger     *)
(* than the one it replaces.                                               *)
mayThrow(ps) == textSize(JSONstringify(ps)) > textSize(stored.text)

(* The effect runs after the render of a step that set papers; a step that *)
(* set it to what it was writes the text already stored.                   *)
persistEffect ==
  \E ok \in BOOLEAN :
    /\ ok \/ mayThrow(papers')
    /\ stored' = IF papers' = papers THEN stored ELSE persist(papers', ok)

(* The page is loaded again: the state of every component is initialised,  *)
(* papers from the text stored, and the calls in flight are gone with the  *)
(* page; the effect of the first render then writes papers.                *)
reload ==
  /\ papers' = JSONparse(stored.text)
  /\ mountPapers' = papers'
  /\ pendingFile' = Undefined
  /\ editingPaper' = Undefined
  /\ checker' = checkerIdle
  /\ pipelines' = {}
  /\ confirmDialog' = Undefined
  /\ \E ok \in BOOLEAN :
       /\ ok \/ mayThrow(papers')
       /\ stored' = persist(papers', ok)
  /\ lastOp' = [op |-> "reload", text |-> stored.text]
  /\ UNCHANGED <<nextId, commitLog, backup, taxonomy, aiSettings>>

(* A step of the manager with the effect that follows its render. *)
persisted(step) ==
  /\ step
  /\ persistEffect
  /\ lastOp' = NoOp
  /\ UNCHANGED <<backup, taxonomy, aiSettings>>

(* The collection manager with its storage, for one paper of the user's at *)
(* a time next to the imported one: accept, complete, fail, edit, remove,  *)
(* import and reload.                                                      *)
NextPersist ==
  \/ /\ ~editorShown
     /\ \/ /\ pipelines = {}
           /\ \A i \in 1..Len(papers) : papers[i] = extPaper
           /\ persisted(\E file \in {f \in PdfFiles : f.name = "a.pdf"} :
                          handleAcceptPaper(file))
        \/ persisted(\E id \in ids(papers) : handleRemove(id))
        \/ persisted(\E i \in 1..Len(papers) : handleEdit(papers[i]))
        \/ persisted(\E confirmReplace \in BOOLEAN :
                       handleJsonUpload(<<extPaper>>, confirmReplace))
  \/ persisted(pipelineStep(ManageOutcomes, {Undefined}))
  \/ persisted(cancelEdit)
  \/ persisted(\E confirmSave \in BOOLEAN :
                 handleSaveEdit([doi |-> <<"y">>], confirmSave))
  \/ reload

SpecPersist == Init /\ [][NextPersist]_vars

(***************************************************************************)
(* Properties of the collection manager (Spec).                            *)
(***************************************************************************)
(* The normal form of the DOIs of Dois and RegistryDois, written out: the  *)
(* DOI lower-cased and trimmed.                                            *)
CanonicalDoi(d) ==
  CASE d = <<>> -> ""
    [] d = <<"x">> -> "x"
    [] d = <<" ", "X">> -> "x"
    [] d = <<"y">> -> "y"

(* Two records carry the same non-empty DOI. *)
MatchingDois(a, b) ==
  /\ doiOf(a.data) # <<>>
  /\ doiOf(b.data) # <<>>
  /\ CanonicalDoi(doiOf(a.data)) = CanonicalDoi(doiOf(b.data))

(* The step replaces the collection by, or merges it with, a backup. *)
ImportStep ==
  \E importedPapers \in ImportBatches(papers), confirmReplace \in BOOLEAN :
    handleJsonUpload(importedPapers, confirmReplace)

(* C1: every record appears in status 'analyzing', and outside an import   *)
(* the status of a record id changes only from 'analyzing' to 'complete'   *)
(* or 'error': a 'complete' or 'error' record keeps its status whatever    *)
(* other pipelines, edits, accepts and removals do.                        *)
C1_StatusChangesOnce ==
  [][~ImportStep =>
       /\ \A id \in ids(papers') \ ids(papers) :
            paperOf(papers', id).status = "analyzing"
       /\ \A id \in ids(papers') \cap ids(papers) :
            LET before == paperOf(papers, id).status
                after == paperOf(papers', id).status
            IN  before # after =>
                  before = "analyzing" /\ after \in {"complete", "error"}]_vars

(* C1 witness: one accepted record is complete while another is in error.  *)
C1_Witness ==
  /\ \E i \in 1..Len(papers) : papers[i].status = "complete" /\ papers[i].id # 0
  /\ \E i \in 1..Len(papers) : papers[i].status = "error"

(* The pipeline of id ends in this step by committing its result. *)
Commits(id) ==
  /\ \E p \in pipelines : p.id = id /\ p.stage = "enrichWithCrossRef"
  /\ id \notin pipelineIds(pipelines')

(* The pipeline of id ends in this step by a failure. *)
Fails(id) ==
  /\ \E p \in pipelines : p.id = id /\ p.stage # "enrichWithCrossRef"
  /\ id \notin pipelineIds(pipelines')

(* C2: when the pipeline of a listed record commits, the record becomes    *)
(* 'complete' and its isDuplicate is true exactly when another 'complete'  *)
(* record of the collection carries the same non-empty DOI, lower-cased    *)
(* and trimmed.                                                            *)
C2_DuplicateIffMatch ==
  [][\A id \in ids(papers) :
       Commits(id) =>
         LET new == paperOf(papers', id)
             match == \E i \in 1..Len(papers) :
                        /\ papers[i].id # id
                        /\ papers[i].status = "complete"
                        /\ MatchingDois(papers[i], new)
         IN  /\ new.status = "complete"
             /\ new.isDuplicate = Some(match)]_vars

(* C2 witness: a record committed by its pipeline is flagged for a DOI     *)
(* that differs in case and blanks from the one it matches, next to a      *)
(* committed record that is not flagged.                                   *)
C2_Witness ==
  \E i, j \in 1..Len(commitLog) :
    LET a == paperOf(papers, commitLog[i].id)
        b == paperOf(papers, commitLog[j].id)
    IN  /\ i < j
        /\ ~commitLog[j].edited
        /\ a.status = "complete" /\ b.status = "complete"
        /\ doiOf(a.data) # doiOf(b.data)
        /\ MatchingDois(a, b)
        /\ b.isDuplicate = Some(TRUE)
        /\ a.isDuplicate = Some(FALSE)

(* C3 as stated: of two distinct 'complete' records with the same          *)
(* non-empty DOI, the one whose pipeline committed later is flagged.       *)
C3_LaterIsFlagged ==
  \A i, j \in 1..Len(commitLog) :
    LET a == paperOf(papers, commitLog[i].id)
        b == paperOf(papers, commitLog[j].id)
    IN  (i < j /\ a.status = "complete" /\ b.status = "complete"
           /\ MatchingDois(a, b))
          => b.isDuplicate = Some(TRUE)

(* C3 amended: of two distinct 'complete' records with the same non-empty  *)
(* DOI, neither of them edited, removed or imported over since its         *)
(* pipeline committed it, the one that committed later is flagged.         *)
C3_LaterIsFlaggedUnlessEdited ==
  \A i, j \in 1..Len(commitLog) :
    LET a == paperOf(papers, commitLog[i].id)
        b == paperOf(papers, commitLog[j].id)
    IN  (i < j /\ ~commitLog[i].edited /\ ~commitLog[j].edited
           /\ a.status = "complete" /\ b.status = "complete"
           /\ MatchingDois(a, b))
          => b.isDuplicate = Some(TRUE)

(* C3 witness: the records committed by their pipelines, at least two and  *)
(* none edited, all share one DOI; the first committed is not flagged.     *)
C3_Witness ==
  /\ Len(commitLog) >= 2
  /\ \A i \in 1..Len(commitLog) : ~commitLog[i].edited
  /\ \A i, j \in 1..Len(commitLog) :
       MatchingDois(paperOf(papers, commitLog[i].id),
                    paperOf(papers, commitLog[j].id))
  /\ paperOf(papers, commitLog[1].id).isDuplicate = Some(FALSE)
  /\ extPaper.id \notin ids(papers)

(* C4: the step that ends the pipeline of id X, by commit or by failure,   *)
(* leaves every record of another id as it was, at its place; an earlier   *)
(* record with the DOI of the committed one keeps its isDuplicate.         *)
C4_OtherRecordsUntouched ==
  [][\A id \in pipelineIds(pipelines) :
       (Commits(id) \/ Fails(id)) =>
         /\ Len(papers') = Len(papers)
         /\ \A i \in 1..Len(papers) :
              papers[i].id # id => papers'[i] = papers[i]]_vars

(* C4 witness: the record committed first is not flagged while the record  *)
(* committed after it, with the same DOI, is.                              *)
C4_Witness ==
  /\ Len(commitLog) >= 2
  /\ LET a == paperOf(papers, commitLog[1].id)
         b == paperOf(papers, commitLog[2].id)
     IN  /\ ~commitLog[1].edited /\ ~commitLog[2].edited
         /\ MatchingDois(a, b)
         /\ a.isDuplicate = Some(FALSE)
         /\ b.isDuplicate = Some(TRUE)
         /\ doiOf(a.data) = doiOf(b.data)

(* C5 as stated: a record has a payload exactly when it is 'complete' and  *)
(* an error message exactly when it is 'error'.                            *)
C5_PayloadIffComplete ==
  \A i \in 1..Len(papers) :
    /\ IsSet(papers[i].data) <=> papers[i].status = "complete"
    /\ IsSet(papers[i].errorMsg) <=> papers[i].status = "error"

(* The failures of C6 make analyzePaper throw: a provider failure, an      *)
(* empty response, unparseable output, and no usable credential.           *)
FailuresThrow ==
  \A config \in Configs, reply \in ProviderReplies(ParsedAnalyses) :
    (\/ reply.throws
     \/ reply.value.kind \in {"empty", "notjson"}
     \/ (config.provider = "claude" /\ ~config.orangeApiKey)
     \/ (~config.orangeApiKey /\ ~config.geminiApiKey))
      => analyzePaperParse(config, reply).throws

(* C6: the step in which the pipeline of a record fails (the PDF is not    *)
(* readable, or analyzePaper throws for one of the failures above) puts    *)
(* the record, if it is listed, in status 'error' with a message and ends  *)
(* the pipeline; no step starts a pipeline for an id that had one, and a   *)
(* record in 'error' is not set to 'complete' outside an import.           *)
C6_FailureEndsInError ==
  [][/\ FailuresThrow
     /\ \A id \in pipelineIds(pipelines) :
          Fails(id) =>
            (id \in ids(papers) =>
               /\ paperOf(papers', id).status = "error"
               /\ IsSet(paperOf(papers', id).errorMsg))
     /\ pipelineIds(pipelines') \ pipelineIds(pipelines) \subseteq {nextId}
     /\ nextId' >= nextId
     /\ pipelineIds(pipelines') \subseteq 1..(nextId' - 1)
     /\ ~ImportStep =>
          \A id \in ids(papers) \cap ids(papers') :
            paperOf(papers, id).status = "error" =>
              paperOf(papers', id).status = "error"]_vars

(* C6 witness: one record failed for the missing credential and another    *)
(* for unparseable output, and no pipeline is left.                        *)
C6_Witness ==
  /\ pipelines = {}
  /\ \E i \in 1..Len(papers) :
       /\ papers[i].status = "error"
       /\ papers[i].errorMsg = Some("Orange API key not configured")
  /\ \E i \in 1..Len(papers) :
       /\ papers[i].status = "error"
       /\ papers[i].errorMsg = Some("SyntaxError")

(***************************************************************************)
(* Properties of the intake (SpecIntake).                                  *)
(***************************************************************************)
(* C7 as stated: the result of the screener has isRelevant = (score >= 40) *)
(* whatever the model returned.                                            *)
C7_IsRelevantIffScore40 ==
  IsSet(checker.result) =>
    (checker.result[1].isRelevant <=> checker.result[1].score >= 40)

(* C8 as stated: whatever the outcome of the screening of the pending      *)
(* file, once it is over the decision point is offered, at which the file  *)
(* can be accepted or rejected.                                            *)
C8_DecisionPointAfterScreening ==
  (IsSet(pendingFile) /\ checker.stage = "ended") => decisionPoint

(* C9: a step that adds a record is the accept of the pending file at the  *)
(* decision point, and the record is that file's, in 'analyzing'; every    *)
(* other step that moves the intake (a submission, its confirmation, a     *)
(* screening step that succeeds or fails, a rejection) leaves the          *)
(* collection as it is.                                                    *)
C9_OnlyAcceptAddsRecord ==
  [][LET added == ids(papers') \ ids(papers)
     IN  /\ added # {} =>
              /\ decisionPoint
              /\ \A id \in added :
                   /\ paperOf(papers', id).fileName = pendingFile[1].name
                   /\ paperOf(papers', id).status = "analyzing"
         /\ (added = {} /\ <<pendingFile, checker, confirmDialog>>'
                             # <<pendingFile, checker, confirmDialog>>)
              => papers' = papers]_vars

(* C9 witness: with a record in the collection, the screening of a newly   *)
(* submitted file has failed.                                              *)
C9_Witness ==
  /\ Len(papers) = 1
  /\ IsSet(pendingFile)
  /\ checker.stage = "ended"
  /\ checker.result = Undefined

(* C10 as stated: a submission, by the file picker or by drag-and-drop,    *)
(* raises the confirmation exactly when the name of the file is the file   *)
(* name of a record of the collection as it is then; without a match the   *)
(* file goes to the gate at once.                                          *)
C10_NameCheckedAgainstCollection ==
  [][(confirmDialog = Undefined /\ ~modalShown) =>
       /\ IsSet(confirmDialog') =>
            confirmDialog'[1].name \in fileNames(papers)
       /\ (confirmDialog' = Undefined /\ IsSet(pendingFile')
             /\ pendingFile' # pendingFile)
            => pendingFile'[1].name \notin fileNames(papers)]_vars

(***************************************************************************)
(* Properties of the editor (SpecEdit).                                    *)
(***************************************************************************)
(* The step that led here was handleSaveEdit. *)
SaveEditDone == lastOp.op = "handleSaveEdit"

(* The edit applied: the editor was closed by the save. *)
EditApplied == SaveEditDone /\ editingPaper = Undefined

(* The DOI typed in the editor is not empty and is, lower-cased and        *)
(* trimmed, the DOI of a record other than the edited one.                 *)
EditCollides ==
  /\ lastOp.updatedData.doi # <<>>
  /\ \E i \in 1..Len(lastOp.before) :
       /\ lastOp.before[i].id # lastOp.id
       /\ doiOf(lastOp.before[i].data) # <<>>
       /\ CanonicalDoi(doiOf(lastOp.before[i].data))
            = CanonicalDoi(lastOp.updatedData.doi)

(* C11: after an edit is applied, the edited record has the edited data    *)
(* and isDuplicate = false, also when the DOI collides with another        *)
(* record's and the collision was confirmed, and every other record is as  *)
(* it was, at its place.                                                   *)
C11_EditSetsDataClearsFlag ==
  EditApplied =>
    /\ Len(papers) = Len(lastOp.before)
    /\ lastOp.id \in ids(lastOp.before)
    /\ \A i \in 1..Len(papers) :
         IF lastOp.before[i].id = lastOp.id
           THEN /\ papers[i].data = Some(lastOp.updatedData)
                /\ papers[i].isDuplicate = Some(FALSE)
                /\ papers[i].id = lastOp.id
                /\ papers[i].status = lastOp.before[i].status
                /\ papers[i].fileName = lastOp.before[i].fileName
           ELSE papers[i] = lastOp.before[i]

(* C11 witness: a record flagged as duplicate was edited, its DOI still    *)
(* collides with another record's, the collision was confirmed, and the    *)
(* record is no longer flagged.                                            *)
C11_Witness ==
  /\ EditApplied
  /\ EditCollides
  /\ lastOp.confirmSave
  /\ paperOf(lastOp.before, lastOp.id).isDuplicate = Some(TRUE)
  /\ paperOf(papers, lastOp.id).isDuplicate = Some(FALSE)
  /\ Len(papers) >= 2

(* C12: a save whose DOI collides with another record's is applied only    *)
(* when it was confirmed; when the confirmation was declined the           *)
(* collection is as it was before and the editor stays open.               *)
C12_CollidingEditNeedsConfirm ==
  (SaveEditDone /\ EditCollides) =>
    IF lastOp.confirmSave
      THEN EditApplied
      ELSE papers = lastOp.before /\ IsSet(editingPaper)

(* C12 witness: a save that would have changed the DOI of a record to one  *)
(* that differs in case and blanks from another record's was declined.     *)
C12_Witness ==
  /\ SaveEditDone
  /\ EditCollides
  /\ ~lastOp.confirmSave
  /\ lastOp.updatedData.doi = <<" ", "X">>
  /\ doiOf(paperOf(papers, lastOp.id).data) # lastOp.updatedData.doi
  /\ \A i \in 1..Len(papers) : doiOf(papers[i].data) # lastOp.updatedData.doi

(***************************************************************************)
(* Properties of the backup and the import (SpecBackup).                   *)
(***************************************************************************)
ImportDone == lastOp.op = "handleJsonUpload"

(* The places of the imported file whose id was not in the collection. *)
NewPlaces ==
  {k \in 1..Len(lastOp.importedPapers) :
     lastOp.importedPapers[k].id \notin ids(lastOp.before)}

(* C13: after a merge import the records of before are all there, as they  *)
(* were and in their order, followed by exactly the imported records whose *)
(* id was not in the collection; an imported record whose id was there is  *)
(* dropped.                                                                *)
C13_MergeAddsNewIdsOnly ==
  (ImportDone /\ ~lastOp.confirmReplace) =>
    /\ Len(papers) = Len(lastOp.before) + Cardinality(NewPlaces)
    /\ SubSeq(papers, 1, Len(lastOp.before)) = lastOp.before
    /\ {papers[i] : i \in (Len(lastOp.before) + 1)..Len(papers)}
         = {lastOp.importedPapers[k] : k \in NewPlaces}

(* C13 witness: a file with one id of the collection and one new id was    *)
(* merged: the collection has one record more, and the record that was     *)
(* there, which the file holds in another state, is as it was.             *)
C13_Witness ==
  /\ ImportDone
  /\ ~lastOp.confirmReplace
  /\ Len(lastOp.importedPapers) = 2
  /\ Len(lastOp.before) = 1
  /\ Len(papers) = 2
  /\ \E k \in 1..2 :
       /\ lastOp.importedPapers[k].id = papers[1].id
       /\ lastOp.importedPapers[k] # papers[1]
       /\ papers[1].status = "complete"

(* C14: after the backup file is imported in replace mode the collection   *)
(* is the exported one, record by record (id, status, data), and no record *)
(* that was there before the import and is not in the backup is left.      *)
C14_ReplaceRestoresBackup ==
  (ImportDone /\ lastOp.confirmReplace /\ IsSet(backup)
     /\ lastOp.importedPapers = JSONparse(backup[1].text)) =>
    LET exported == backup[1].exported
    IN  /\ Len(papers) = Len(exported)
        /\ \A i \in 1..Len(papers) :
             /\ papers[i].id = exported[i].id
             /\ papers[i].status = exported[i].status
             /\ papers[i].data = exported[i].data
        /\ \A id \in ids(lastOp.before) \ ids(exported) : id \notin ids(papers)

(* C14 witness: the backup of a 'complete' record, which has a payload and *)
(* no error message, replaced a collection that held a record the backup   *)
(* does not hold.                                                          *)
C14_Witness ==
  /\ ImportDone
  /\ lastOp.confirmReplace
  /\ \E i \in 1..Len(papers) :
       /\ papers[i].status = "complete"
       /\ IsSet(papers[i].data)
       /\ papers[i].errorMsg = Undefined
  /\ ids(lastOp.before) \ ids(papers) # {}

RemoveDone == lastOp.op = "handleRemove"

(* C15: after remove(id) the record of that id is gone, whatever its       *)
(* status was, and the other records are as they were, in their order.     *)
C15_RemoveDeletesOnlyThatRecord ==
  RemoveDone =>
    LET before == lastOp.before
        k == CHOOSE i \in 1..Len(before) : before[i].id = lastOp.id
    IN  /\ lastOp.id \notin ids(papers)
        /\ Len(papers) = Len(before) - 1
        /\ \A i \in 1..Len(papers) :
             papers[i] = IF i < k THEN before[i] ELSE before[i + 1]

(* C15 witness: a record under analysis was removed and the settled record *)
(* that was listed after it is now the first.                              *)
C15_Witness ==
  /\ RemoveDone
  /\ paperOf(lastOp.before, lastOp.id).status = "analyzing"
  /\ Len(papers) >= 1
  /\ lastOp.before[1].id = lastOp.id
  /\ papers[1].status \in {"complete", "error"}

(***************************************************************************)
(* Properties of the analysis service (SpecService).                       *)
(***************************************************************************)
(* The step that led here ended the enrichment and committed its result. *)
EnrichDone == lastOp.op = "enrichWithCrossRef"

(* The draft the enrichment was given has a DOI, a title. *)
DraftHasDoi == doiOf(lastOp.analysis) # <<>>
DraftHasTitle == titleOf(lastOp.analysis) # ""

(* The registry was unreachable for, or answered with an error to, the     *)
(* lookup by DOI.                                                          *)
DoiLookupFailed == lastOp.doiResponse.throws \/ ~lastOp.doiResponse.value.ok

(* The registry was unreachable for the search by title, answered it with  *)
(* an error, or had no match.                                              *)
SearchFoundNothing ==
  \/ lastOp.searchResponse.throws
  \/ ~lastOp.searchResponse.value.ok
  \/ lastOp.searchResponse.value.items = <<>>

(* The record of the enriched paper is 'complete' with the draft as data. *)
CommittedUnmodified ==
  /\ paperOf(papers, lastOp.id).status = "complete"
  /\ paperOf(papers, lastOp.id).data = lastOp.analysis

(* An enriched record, enriched again with the registry unreachable, is    *)
(* returned as it is.                                                      *)
EnrichAgainUnreachable ==
  \A a \in ServiceDrafts, w \in Works :
    LET enriched == enrichWithCrossRef(Some(a), Some(w))
    IN  enrichWithCrossRef(enriched,
          crossRefDataFound(enriched, FetchFailure, FetchFailure)) = enriched

(* C16: whatever the registry did, the listed record of the enriched paper *)
(* is 'complete'; when the registry was unreachable, answered with an      *)
(* error or had no match for every query, the record's data is the draft,  *)
(* unmodified; and an enriched record is unchanged by an enrichment with   *)
(* the registry unreachable.                                               *)
C16_EnrichmentNeverFails ==
  /\ EnrichAgainUnreachable
  /\ (EnrichDone /\ lastOp.id \in ids(papers)) =>
       /\ paperOf(papers, lastOp.id).status = "complete"
       /\ (DoiLookupFailed /\ SearchFoundNothing) => CommittedUnmodified

(* C16 witness: a draft with DOI and title was committed as it was after   *)
(* the registry was unreachable.                                           *)
C16_Witness ==
  /\ EnrichDone
  /\ lastOp.id \in ids(papers)
  /\ DraftHasDoi /\ DraftHasTitle
  /\ lastOp.doiResponse.throws
  /\ CommittedUnmodified

(* The lookup by DOI was made and answered with an error (404). *)
DoiLookup404 ==
  /\ DraftHasDoi
  /\ ~lastOp.doiResponse.throws
  /\ ~lastOp.doiResponse.value.ok

(* C17 as stated: when the lookup by DOI answers 404 the record is         *)
(* 'complete' with the draft, unmodified.                                  *)
C17_Doi404Unmodified ==
  (EnrichDone /\ lastOp.id \in ids(papers) /\ DoiLookup404)
    => CommittedUnmodified

(* C17 amended: when the lookup by DOI answers 404 and the search by title *)
(* that follows it finds nothing (or the draft has no title to search by), *)
(* the record is 'complete' with the draft, unmodified.                    *)
C17_Doi404NoMatchUnmodified ==
  (EnrichDone /\ lastOp.id \in ids(papers) /\ DoiLookup404
     /\ (~DraftHasTitle \/ SearchFoundNothing))
    => CommittedUnmodified

(* C17 witness: the lookup by DOI answered 404, the search by the draft's  *)
(* title answered an empty list, and the draft was committed as it was.    *)
C17_Witness ==
  /\ EnrichDone
  /\ lastOp.id \in ids(papers)
  /\ DoiLookup404
  /\ DraftHasTitle
  /\ ~lastOp.searchResponse.throws
  /\ lastOp.searchResponse.value.ok
  /\ lastOp.searchResponse.value.items = <<>>
  /\ CommittedUnmodified
  /\ paperOf(papers, lastOp.id).data[1].journal = "j"

(* The lookup by DOI was made and found a work. *)
HitByDoi ==
  /\ DraftHasDoi
  /\ ~lastOp.doiResponse.throws
  /\ lastOp.doiResponse.value.ok

(* The search by title was made and found a work. *)
HitByTitle ==
  /\ ~HitByDoi
  /\ ~(DraftHasDoi /\ lastOp.doiResponse.throws)
  /\ DraftHasTitle
  /\ ~SearchFoundNothing

RegistryHit == IsSet(lastOp.analysis) /\ (HitByDoi \/ HitByTitle)

(* The work of the hit: the message of the lookup, or the top match. *)
WorkFound ==
  IF HitByDoi THEN lastOp.doiResponse.value.message
  ELSE lastOp.searchResponse.value.items[1]

(* The fields enrichment may replace, and what the registry supplies for   *)
(* each ("" and <<>> when it supplies nothing); the URL is the doi.org     *)
(* link of the registry's DOI.                                             *)
EnrichedFields == {"journal", "volume", "issue", "year", "doi", "url"}

Supplied(w, f) ==
  CASE f = "journal" -> IF w.containerTitle = <<>> THEN "" ELSE w.containerTitle[1]
    [] f = "volume" -> w.volume
    [] f = "issue" -> w.issue
    [] f = "year" -> IF w.published = <<>> THEN ""
                     ELSE IF w.published[1] = 2020 THEN "2020" ELSE "1999"
    [] f = "doi" -> w.DOI
    [] f = "url" -> IF w.DOI = <<>> THEN <<>> ELSE <<"https://doi.org/">> \o w.DOI

(* The registry supplies a non-empty value for the field. *)
Supplies(w, f) ==
  IF f \in {"doi", "url"} THEN Supplied(w, f) # <<>> ELSE Supplied(w, f) # ""

(* C18: after a registry hit, each of journal, volume, issue, year, DOI    *)
(* and URL of the committed record is the registry's value when the        *)
(* registry supplies a non-empty one and the draft's value otherwise, and  *)
(* every other field is the draft's.                                       *)
C18_HitReplacesSuppliedFieldsOnly ==
  (EnrichDone /\ lastOp.id \in ids(papers) /\ RegistryHit) =>
    LET draft == lastOp.analysis[1]
        data == paperOf(papers, lastOp.id).data[1]
    IN  /\ DOMAIN data = DOMAIN draft
        /\ \A f \in DOMAIN draft :
             data[f] = IF f \in EnrichedFields /\ Supplies(WorkFound, f)
                         THEN Supplied(WorkFound, f)
                         ELSE draft[f]

(* C18 witness: the registry supplied a journal and a year and no DOI: the *)
(* record has the registry's journal and year, and the draft's DOI, URL    *)
(* and abstract.                                                           *)
C18_Witness ==
  /\ EnrichDone
  /\ lastOp.id \in ids(papers)
  /\ RegistryHit
  /\ WorkFound.DOI = <<>>
  /\ LET data == paperOf(papers, lastOp.id).data[1]
     IN  /\ data.journal = "J"
         /\ data.year = "1999"
         /\ data.doi = <<"x">>
         /\ data.url = <<"u">>
         /\ data.abstract = "a"

(* The step that led here was a call of the gateway. *)
CallDone == lastOp.op = "callAI"

(* C19 as stated: the gateway sends its request to the provider the        *)
(* configuration selects and to no other, and fails without a request when *)
(* the credential of the selected provider is absent.                      *)
C19_SelectedProviderOnly ==
  CallDone =>
    LET credential == IF lastOp.config.provider = "gemini"
                        THEN lastOp.config.geminiApiKey
                        ELSE lastOp.config.orangeApiKey
    IN  /\ ~credential => (lastOp.request = Undefined /\ lastOp.result.throws)
        /\ IsSet(lastOp.request) =>
             lastOp.request[1].provider = lastOp.config.provider

(* C20 as stated: the request of the gateway asks the provider for JSON    *)
(* output exactly when the response mode of the call is structured JSON.   *)
C20_ResponseModeDecidesJson ==
  (CallDone /\ IsSet(lastOp.request)) =>
    (lastOp.request[1].json <=> lastOp.responseMimeType = "application/json")


(* The top-level keys of the schema the model keeps, all of them required. *)
RequiredKeys == DOMAIN DraftFull

(* C21: a record is 'complete' with data only if the data, which is the    *)
(* extractor's output after enrichment, has every required key; a reply    *)
(* that is valid JSON without one of them ends the pipeline in 'error'.    *)
C21_CompleteHasRequiredKeys ==
  \A i \in 1..Len(papers) :
    (papers[i].status = "complete" /\ IsSet(papers[i].data))
      => RequiredKeys \subseteq DOMAIN papers[i].data[1]


(***************************************************************************)
(* Properties of the persistence (SpecPersist).                            *)
(***************************************************************************)
ReloadDone == lastOp.op = "reload"

NewSinceDraft ==
  {i \in 1..Len(papers) :
     /\ papers[i].status = "complete"
     /\ IsSet(papers[i].data)
     /\ papers[i].id \notin taxonomy.draftIds}

(* C23: once a draft is there, it is shown as outdated whenever a paper    *)
(* whose analysis completed is listed that the draft was not made of,      *)
(* whatever was added and removed in between.                              *)
C23_NewCompleteShowsOutdated ==
  (IsSet(taxonomy.result) /\ NewSinceDraft # {}) => isStale


(***************************************************************************)
(* Properties of the pipelines in flight side by side (SpecLive).          *)
(***************************************************************************)
(* Every file accepted is listed, and was committed by its pipeline. *)
AllCommitted ==
  /\ Len(papers) = nextId - 1
  /\ Len(commitLog) = nextId - 1

(* C24: when the pipelines of all the files accepted have committed, a     *)
(* record with a DOI is flagged exactly when a record with the same DOI,   *)
(* lower-cased and trimmed, was committed before it: the order of the      *)
(* commits decides, whichever file was accepted first.                     *)
C24_CommitOrderDecidesFlag ==
  AllCommitted =>
    \A j \in 1..Len(commitLog) :
      LET b == paperOf(papers, commitLog[j].id)
      IN  b.isDuplicate =
            Some(\E i \in 1..(j - 1) :
                   MatchingDois(paperOf(papers, commitLog[i].id), b))

(* C24 witness: of two records with the same DOI the one accepted second   *)
(* was committed first and is not flagged; the one accepted first is.      *)
C24_Witness ==
  /\ AllCommitted
  /\ \E i, j \in 1..Len(commitLog) :
       LET a == paperOf(papers, commitLog[i].id)
           b == paperOf(papers, commitLog[j].id)
       IN  /\ i < j
           /\ a.id > b.id
           /\ MatchingDois(a, b)
           /\ a.isDuplicate = Some(FALSE)
           /\ b.isDuplicate = Some(TRUE)


(* The record of id is listed and its analysis is not over. *)
Analyzing(id) ==
  id \in ids(papers) /\ paperOf(papers, id).status = "analyzing"

(* The record of id is 'complete' or 'error', or it is not listed. *)
Settled(id) ==
  id \in ids(papers) => paperOf(papers, id).status \in {"complete", "error"}

(* C25: when every call of a pipeline eventually returns or fails, a       *)
(* record accepted leaves 'analyzing' for 'complete' or 'error' unless it  *)
(* is removed, whatever the other pipelines and the user do meanwhile;     *)
(* nothing but its own steps ends a pipeline.                              *)
C25_AnalyzingIsLeft ==
  /\ \A id \in 1..MaxAccepts : Analyzing(id) ~> Settled(id)
  /\ [][\A p \in pipelines :
          p.id \notin pipelineIds(pipelines') => pipelineStepOf(p.id)]_vars

(* C25 witness: a record has left 'analyzing' while the pipeline of        *)
(* another record, accepted before it, is still in flight.                 *)
C25_Witness ==
  \E id \in ids(papers), p \in pipelines :
    /\ id > p.id
    /\ paperOf(papers, id).status \in {"complete", "error"}
    /\ Analyzing(p.id)


(***************************************************************************)
(* Properties of the settings (SpecSettings).                              *)
(***************************************************************************)
(* The settings under 'aiSettings' now, the defaults when none is saved. *)
SettingsNow ==
  IF aiSettings.saved = <<>>
    THEN [provider |-> "claude", orangeApiKey |-> FALSE, geminiApiKey |-> FALSE]
    ELSE aiSettings.saved[1]

(* C26: a call of the gateway works with the provider selection and the    *)
(* credentials saved at the time of the call, and sends no request with a  *)
(* credential that is not among them.                                      *)
C26_SettingsReadAtEachCall ==
  CallDone =>
    /\ lastOp.config = SettingsNow
    /\ IsSet(lastOp.request) =>
         IF lastOp.request[1].provider = "gemini"
           THEN SettingsNow.provider = "gemini" /\ SettingsNow.geminiApiKey
           ELSE SettingsNow.orangeApiKey

(* C26 witness: the settings were changed between two calls while the      *)
(* pipeline of the second was in flight, and the second call sent its      *)
(* request to the provider selected last while another pipeline goes on.   *)
C26_Witness ==
  /\ CallDone
  /\ IsSet(lastOp.previous)
  /\ lastOp.previous[1].provider = "claude"
  /\ lastOp.config.provider = "gemini"
  /\ IsSet(lastOp.request)
  /\ lastOp.request[1].provider = "gemini"
  /\ Cardinality(pipelines) = 2


(***************************************************************************)
(* Properties of the import of foreign files (SpecImport).                 *)
(***************************************************************************)
(* C27: no two records of the collection have the same id, whatever was    *)
(* accepted, removed and imported, by merge or by replacement, files with  *)
(* an id more than once included.                                          *)
C27_IdsUnique ==
  \A i, j \in 1..Len(papers) : papers[i].id = papers[j].id => i = j


(***************************************************************************)
(* Properties of the manager where the user does not wait (SpecRace).      *)
(***************************************************************************)
(* The step that led here ended the pipeline of lastOp.id. *)
PipelineEnded == lastOp.op = "pipelineEnds"

(* The record the step was for was not listed when the step was taken. *)
RecordGone == lastOp.id \notin ids(lastOp.before)

(* C28: the end of a pipeline, by commit or by failure, and the save of an *)
(* edit, for a record that was removed or imported over meanwhile, leave   *)
(* the collection as it was: the record is not listed again and no other   *)
(* record changes.                                                         *)
C28_GoneRecordStaysGone ==
  ((PipelineEnded \/ SaveEditDone) /\ RecordGone) => papers = lastOp.before

(* C28 witness: the pipeline of a record ended after the record was        *)
(* removed, which was done while the editor was open on another record;    *)
(* that record is listed as it was.                                        *)
C28_Witness ==
  /\ PipelineEnded
  /\ RecordGone
  /\ IsSet(editingPaper)
  /\ editingPaper[1].id # lastOp.id
  /\ \E i \in 1..Len(papers) : papers[i] = editingPaper[1]


(***************************************************************************)
(* Properties of the records under analysis (SpecPersist).                 *)
(***************************************************************************)
(* C29: every record that is 'analyzing' has exactly one pipeline in       *)
(* flight, which will settle it, after a reload and after an import too.   *)
C29_AnalyzingHasPipeline ==
  \A i \in 1..Len(papers) :
    papers[i].status = "analyzing" =>
      Cardinality({p \in pipelines : p.id = papers[i].id}) = 1


(***************************************************************************)
(* Properties of the screening runs (SpecIntake).                          *)
(***************************************************************************)
(* C30: the screening run of the RelevanceChecker, with the result it      *)
(* shows, is the one started for the file that is pending, also when a     *)
(* file was pending before or the screening before failed; the record      *)
(* made on accept is therefore of the file screened.                       *)
C30_ScreeningIsOfPendingFile ==
  IsSet(pendingFile) => checker.file = pendingFile

====
